---- MODULE Spec2Model ----
(***************************************************************************)
(* The suggestion engine of the Flare style checker (processors.py,        *)
(* mstp_rules.py, streamlit_app.py): extraction of the text nodes of a     *)
(* parsed document, generation of the MSTP and grammar suggestions, their  *)
(* deduplication, the review of the suggestion table and the application   *)
(* of the accepted suggestions to the tree.                                *)
(*                                                                         *)
(* Text is written as TLA+ strings; a character is a string of length 1.   *)
(* The five non-ASCII characters of the sources are written with ASCII     *)
(* characters that occur nowhere else in the model: LDQUO, RDQUO, LSQUO,   *)
(* RSQUO for the smart quotes of mstp_rules.py:90,96 and ENDASH for the    *)
(* dash of processors.py:99.                                               *)
(***************************************************************************)
EXTENDS Integers, Sequences, FiniteSets, TLC

VARIABLES
    tree,       \* the parsed document (soup)
    orig,       \* the tree as it was parsed
    pc,         \* where the run over this document stands
    lt,         \* "on" when LanguageTool was loaded, "none" when _lt is None
    nodes,      \* process_html: the fragments extract_text_nodes returned
    mstp,       \* process_html: the result of apply_mstp_rules_to_nodes
    gram,       \* apply_langtool_to_nodes: the suggestions collected so far
    ltIdx,      \* apply_langtool_to_nodes: the fragment the loop is at
    ltLog,      \* what the advisor answered for each fragment checked so far
    df,         \* the suggestion table
    html,       \* the markup apply_selected_changes returned
    applied,    \* the count apply_selected_changes returned
    err,        \* the exception a call ended with, "" when none
    extracted,  \* <<r>>: r is what the last call of extract_text_nodes returned
    first,      \* <<r>>: r is what the first call of extract_text_nodes returned
    dIn,        \* the list given to dedupe_suggestions
    dOut        \* <<r>>: r is what dedupe_suggestions returned for dIn

vars == <<tree, orig, pc, lt, nodes, mstp, gram, ltIdx, ltLog, df, html,
          applied, err, extracted, first, dIn, dOut>>

(***************************************************************************)
(* Characters and strings (Python str, re's \w, \s, \b and IGNORECASE).    *)
(***************************************************************************)
LDQUO == "{"
RDQUO == "}"
LSQUO == "["
RSQUO == "]"
ENDASH == "~"

UpperS == "ABCDEFGHIJKLMNOPQRSTUVWXYZ"
LowerS == "abcdefghijklmnopqrstuvwxyz"
DigitS == "0123456789"

Ch(s, i) == SubSeq(s, i, i)

CharsOf(s) == {Ch(s, i) : i \in 1..Len(s)}

UpperSet == CharsOf(UpperS)

WordSet == CharsOf(UpperS) \cup CharsOf(LowerS) \cup CharsOf(DigitS) \cup {"_"}

SpaceSet == {" ", "\n", "\t"}

LowerFn == [c \in UpperSet |-> Ch(LowerS, CHOOSE i \in 1..26 : Ch(UpperS, i) = c)]

LowerCh(c) == IF c \in UpperSet THEN LowerFn[c] ELSE c

RECURSIVE Lower(_)
Lower(s) == IF s = "" THEN "" ELSE LowerCh(Ch(s, 1)) \o Lower(SubSeq(s, 2, Len(s)))

\* re's \w and \s on the character at position i; a position outside s is neither
IsWordAt(s, i) == i >= 1 /\ i <= Len(s) /\ Ch(s, i) \in WordSet

IsSpaceAt(s, i) == i >= 1 /\ i <= Len(s) /\ Ch(s, i) \in SpaceSet

\* re's \b between the characters at positions i-1 and i
Boundary(s, i) == IsWordAt(s, i - 1) # IsWordAt(s, i)

\* the literal p at position i of s, as re compares it with or without IGNORECASE
LitAt(p, s, i, icase) ==
    /\ i + Len(p) - 1 <= Len(s)
    /\ IF icase THEN Lower(SubSeq(s, i, i + Len(p) - 1)) = Lower(p)
                ELSE SubSeq(s, i, i + Len(p) - 1) = p

\* the end (exclusive) of the run of \w characters that starts at i
RECURSIVE WordRunEnd(_, _)
WordRunEnd(s, i) == IF IsWordAt(s, i) THEN WordRunEnd(s, i + 1) ELSE i

\* the end (exclusive) of the run of \s characters that starts at i
RECURSIVE SpaceRunEnd(_, _)
SpaceRunEnd(s, i) == IF IsSpaceAt(s, i) THEN SpaceRunEnd(s, i + 1) ELSE i

\* str.strip(), str.isspace()
RECURSIVE LStrip(_)
LStrip(s) == IF IsSpaceAt(s, 1) THEN LStrip(SubSeq(s, 2, Len(s))) ELSE s

RECURSIVE RStrip(_)
RStrip(s) == IF IsSpaceAt(s, Len(s)) THEN RStrip(SubSeq(s, 1, Len(s) - 1)) ELSE s

Strip(s) == RStrip(LStrip(s))

IsSpaceStr(s) == s # "" /\ \A i \in 1..Len(s) : IsSpaceAt(s, i)

SetMin(S) == CHOOSE x \in S : \A y \in S : x <= y

\* the positions at which p occurs in s
Occurrences(p, s) ==
    {i \in 1..(Len(s) - Len(p) + 1) : SubSeq(s, i, i + Len(p) - 1) = p}

\* the first position at which p occurs in s, 0 when there is none (str.find)
Find(p, s) == IF Occurrences(p, s) = {} THEN 0 ELSE SetMin(Occurrences(p, s))

Contains(s, p) == Find(p, s) # 0

(***************************************************************************)
(* The rule set (mstp_rules.py).  A rule of kind "alt" is an alternation   *)
(* of literals, with or without a leading and a trailing \b; repls gives   *)
(* the replacement of each alternative (the same literal for a string      *)
(* repl, the value of the lookup for a function repl).  The three other    *)
(* patterns have a kind of their own.                                      *)
(***************************************************************************)
ShortMin == 120

Alt(id, desc, alts, repls, icase, lb, tb) ==
    [id |-> id, desc |-> desc, kind |-> "alt", alts |-> alts, repls |-> repls,
     icase |-> icase, lb |-> lb, tb |-> tb]

Special(id, desc, kind, icase) ==
    [id |-> id, desc |-> desc, kind |-> kind, alts |-> <<>>, repls |-> <<>>,
     icase |-> icase, lb |-> FALSE, tb |-> FALSE]

MSTP_RULES == <<
    Alt("avoid-click-on", "Use 'click' instead of 'click on'.",
        <<"click on">>, <<"click">>, TRUE, TRUE, TRUE),
    Alt("use-email", "Use 'email' instead of 'e-mail'.",
        <<"e-mail">>, <<"email">>, TRUE, TRUE, TRUE),
    Alt("use-sign-in", "Use 'sign in' instead of 'log in' (verb).",
        <<"log in">>, <<"sign in">>, TRUE, TRUE, TRUE),
    Alt("use-sign-in-noun", "Use 'sign-in' instead of 'login' (noun/adj).",
        <<"login">>, <<"sign-in">>, TRUE, TRUE, TRUE),
    Alt("use-internet", "Always capitalize 'Internet'.",
        <<"internet">>, <<"Internet">>, FALSE, TRUE, TRUE),
    Alt("use-web-lower", "Use lowercase 'web'.",
        <<"Web">>, <<"web">>, FALSE, TRUE, TRUE),
    Alt("use-ok", "Use 'OK' instead of 'Okay'.",
        <<"Okay">>, <<"OK">>, TRUE, TRUE, TRUE),
    Alt("avoid-etc", "Avoid 'etc.' in technical docs.",
        <<"etc.">>, <<"">>, TRUE, TRUE, FALSE),
    Alt("setup-vs-set-up", "Use 'set up' (verb), not 'setup'.",
        <<"setup">>, <<"set up">>, TRUE, TRUE, TRUE),
    Alt("use-select", "Use 'select' instead of 'choose'.",
        <<"choose">>, <<"select">>, TRUE, TRUE, TRUE),
    Alt("use-that", "Prefer 'that' over 'which' for restrictive clauses.",
        <<"which">>, <<"that">>, TRUE, TRUE, TRUE),
    Alt("no-ampersand", "Use 'and' instead of '&'.",
        <<"&">>, <<"and">>, FALSE, FALSE, FALSE),
    Special("serial-comma", "Add Oxford comma in lists (A, B, and C).",
        "serial", FALSE),
    Alt("use-quotation-marks", "Use straight quotes, not smart quotes.",
        <<LDQUO, RDQUO>>, <<"\"", "\"">>, FALSE, FALSE, FALSE),
    Alt("use-apostrophe", "Use straight apostrophes, not smart ones.",
        <<LSQUO, RSQUO>>, <<"'", "'">>, FALSE, FALSE, FALSE),
    Alt("use-uppercase-ui", "Capitalize UI elements (OK, Cancel, Save).",
        <<"ok">>, <<"OK">>, TRUE, TRUE, TRUE),
    Alt("use-uppercase-windows", "Capitalize 'Windows'.",
        <<"windows">>, <<"Windows">>, FALSE, TRUE, TRUE),
    Alt("use-uppercase-office", "Capitalize 'Office'.",
        <<"office">>, <<"Office">>, FALSE, TRUE, TRUE),
    Special("avoid-passive", "Prefer active voice instead of passive voice.",
        "passive", TRUE),
    Alt("avoid-redundant-words",
        "Avoid redundant words like 'actually', 'really', 'very'.",
        <<"actually", "actual", "really", "very">>, <<"", "", "", "">>,
        TRUE, TRUE, TRUE),
    Special("short-sentences", "Prefer short, clear sentences.", "short", TRUE),
    Alt("numbers-as-digits", "Use digits for numbers 10 and above.",
        <<"one", "two", "three", "four", "five", "six", "seven", "eight",
          "nine", "ten">>,
        <<"1", "2", "3", "4", "5", "6", "7", "8", "9", "10">>,
        TRUE, TRUE, TRUE),
    Alt("avoid-jargon", "Avoid technical jargon where possible.",
        <<"utilize", "leverage", "synergy">>,
        <<"use", "use", "collaboration">>, TRUE, TRUE, TRUE)
>>

PassiveAux == <<"is", "was", "were", "be", "been", "being">>

\* the alternatives of an "alt" rule that match at position i of s
AltsAt(rule, s, i) ==
    {k \in 1..Len(rule.alts) :
        /\ rule.lb => Boundary(s, i)
        /\ LitAt(rule.alts[k], s, i, rule.icase)
        /\ rule.tb => Boundary(s, i + Len(rule.alts[k]))}

\* the alternative re takes: the first, in the pattern's order, that matches
AltAt(rule, s, i) ==
    IF AltsAt(rule, s, i) = {} THEN 0
    ELSE CHOOSE k \in AltsAt(rule, s, i) : \A j \in AltsAt(rule, s, i) : k <= j

\* (\w+,\s\w+)\sand\s(\w+) at position i: [e2 |-> end of group 1,
\* b3 |-> start of group 2, stop |-> end of the match], stop = 0 for no match
SerialAt(s, i) ==
    LET e1 == WordRunEnd(s, i)
        e2 == WordRunEnd(s, e1 + 2)
        e3 == WordRunEnd(s, e2 + 5)
    IN  IF /\ e1 > i
           /\ LitAt(",", s, e1, FALSE)
           /\ IsSpaceAt(s, e1 + 1)
           /\ e2 > e1 + 2
           /\ IsSpaceAt(s, e2)
           /\ LitAt("and", s, e2 + 1, FALSE)
           /\ IsSpaceAt(s, e2 + 4)
           /\ e3 > e2 + 5
        THEN [e2 |-> e2, b3 |-> e2 + 5, stop |-> e3]
        ELSE [e2 |-> 0, b3 |-> 0, stop |-> 0]

\* \b(is|was|were|be|been|being)\s+\w+ed\b at position i: the end, 0 for no match
PassiveEnds(s, i) ==
    {WordRunEnd(s, SpaceRunEnd(s, i + Len(PassiveAux[k]))) : k \in
        {k \in 1..Len(PassiveAux) :
            LET p == i + Len(PassiveAux[k])
                q == SpaceRunEnd(s, p)
                e == WordRunEnd(s, q)
            IN  /\ Boundary(s, i)
                /\ LitAt(PassiveAux[k], s, i, TRUE)
                /\ q > p
                /\ e - q >= 3
                /\ Lower(SubSeq(s, e - 2, e - 1)) = "ed"}}

PassiveAt(s, i) ==
    IF PassiveEnds(s, i) = {} THEN 0 ELSE CHOOSE e \in PassiveEnds(s, i) : TRUE

\* the end of the shortest run of characters other than newline that starts
\* at j and ends with a ".", 0 when there is none
ShortScan(s, j) ==
    LET dots == {k \in j..Len(s) : Ch(s, k) = "."}
    IN  IF dots = {} THEN 0
        ELSE IF \E x \in j..(SetMin(dots) - 1) : Ch(s, x) = "\n" THEN 0
        ELSE SetMin(dots) + 1

\* (.{120,}?)\. at position i: the end, 0 for no match

ShortAt(s, i) ==
    IF /\ i + ShortMin - 1 <= Len(s)
       /\ \A j \in i..(i + ShortMin - 1) : Ch(s, j) # "\n"
    THEN ShortScan(s, i + ShortMin)
    ELSE 0

\* the end (exclusive) of the match of the rule's pattern at position i of s,
\* 0 when the pattern does not match there
MatchEnd(rule, s, i) ==
    CASE rule.kind = "alt" ->
            IF AltAt(rule, s, i) = 0 THEN 0
            ELSE i + Len(rule.alts[AltAt(rule, s, i)])
      [] rule.kind = "serial" -> SerialAt(s, i).stop
      [] rule.kind = "passive" -> PassiveAt(s, i)
      [] rule.kind = "short" -> ShortAt(s, i)

\* pattern.finditer(s): the non-overlapping matches, leftmost first, as
\* [start, stop) spans
\* the first position >= i at which the pattern matches, 0 when there is none
FirstMatchFrom(rule, s, i) ==
    LET hits == {j \in i..Len(s) : MatchEnd(rule, s, j) # 0}
    IN  IF hits = {} THEN 0 ELSE SetMin(hits)

RECURSIVE FindIterFrom(_, _, _)
FindIterFrom(rule, s, i) ==
    LET j == FirstMatchFrom(rule, s, i)
    IN  IF j = 0 THEN <<>>
        ELSE <<[start |-> j, stop |-> MatchEnd(rule, s, j)]>>
             \o FindIterFrom(rule, s, MatchEnd(rule, s, j))

FindIter(rule, s) == FindIterFrom(rule, s, 1)

\* the expansion of the rule's repl for the match that starts at i in s
Expand(rule, s, i) ==
    CASE rule.kind = "alt" -> rule.repls[AltAt(rule, s, i)]
      [] rule.kind = "serial" ->
            SubSeq(s, i, SerialAt(s, i).e2 - 1) \o ", and "
                \o SubSeq(s, SerialAt(s, i).b3, SerialAt(s, i).stop - 1)
      [] rule.kind = "passive" -> ""
      [] rule.kind = "short" -> ""

\* pattern.sub(repl, s): every match of finditer replaced by its expansion
RECURSIVE SubFrom(_, _, _)
SubFrom(rule, s, i) ==
    LET j == FirstMatchFrom(rule, s, i)
    IN  IF j = 0 THEN SubSeq(s, i, Len(s))
        ELSE SubSeq(s, i, j - 1) \o Expand(rule, s, j)
             \o SubFrom(rule, s, MatchEnd(rule, s, j))

Sub(rule, s) == SubFrom(rule, s, 1)

suggest_active_voice(text) ==
    text \o " (Passive voice detected " \o ENDASH
         \o " consider rewriting in active voice)"

(***************************************************************************)
(* The parsed document.  The tree is the sequence of its text nodes in     *)
(* document order (soup.find_all(string=True)); a node carries its text    *)
(* and the chain of its ancestors, innermost first, up to the document     *)
(* object.  An element is [eid, name, id, class]: eid is the identity of   *)
(* the element object, id and class the attributes _node_path reads.       *)
(***************************************************************************)
Elem(eid, name, id, class) == [eid |-> eid, name |-> name, id |-> id, class |-> class]

\* the BeautifulSoup object that ends every chain of parents
DOCUMENT == Elem(0, "[document]", "", <<>>)

Node(anc, text) == [anc |-> anc, text |-> text]

blacklist == {"script", "style"}

MinVisible == 2

\* ".".join(classes)
RECURSIVE JoinDot(_)
JoinDot(cs) ==
    IF Len(cs) = 0 THEN ""
    ELSE IF Len(cs) = 1 THEN cs[1]
    ELSE cs[1] \o "." \o JoinDot(Tail(cs))

\* the part of the path one ancestor contributes: name, #id, .classes
NamePart(e) ==
    e.name \o (IF e.id # "" THEN "#" \o e.id ELSE "")
           \o (IF e.class # <<>> THEN "." \o JoinDot(e.class) ELSE "")

\* " > ".join(reversed(parts)) over the chain of ancestors
RECURSIVE PathOfChain(_)
PathOfChain(anc) ==
    IF Len(anc) = 0 THEN ""
    ELSE IF Len(anc) = 1 THEN NamePart(anc[1])
    ELSE PathOfChain(Tail(anc)) \o " > " \o NamePart(anc[1])

_node_path(node) == PathOfChain(node.anc)

\* the test of extract_text_nodes on one text node
Extractable(node) ==
    /\ ~(Len(node.anc) > 0 /\ node.anc[1].name \in blacklist)
    /\ node.text # ""
    /\ ~IsSpaceStr(node.text)
    /\ Len(Strip(node.text)) >= MinVisible

\* extract_text_nodes: the TextNodeRef of every node that passes, in
\* document order; node is the position of the text node in the tree
RECURSIVE ExtractFrom(_, _)
ExtractFrom(t, i) ==
    IF i > Len(t) THEN <<>>
    ELSE (IF Extractable(t[i])
            THEN <<[node |-> i, path |-> _node_path(t[i])]>> ELSE <<>>)
         \o ExtractFrom(t, i + 1)

extract_text_nodes(t) == ExtractFrom(t, 1)

(***************************************************************************)
(* Suggestions.                                                            *)
(***************************************************************************)
Suggestion(type, rule_id, description, path, before, after) ==
    [type |-> type, rule_id |-> rule_id, description |-> description,
     path |-> path, before |-> before, after |-> after, apply |-> FALSE]

Key(s) == <<s.type, s.rule_id, s.path, s.before, s.after>>

\* dedupe_suggestions with out.insert(0, s) for out.append(s)
RECURSIVE DedupePrepend(_, _, _)
DedupePrepend(suggs, i, seen) ==
    IF i > Len(suggs) THEN <<>>
    ELSE IF Key(suggs[i]) \in seen THEN DedupePrepend(suggs, i + 1, seen)
    ELSE DedupePrepend(suggs, i + 1, seen \cup {Key(suggs[i])}) \o <<suggs[i]>>

\* dedupe_suggestions that keeps the last suggestion of a key, not the first
RECURSIVE DedupeKeepLast(_, _, _)
DedupeKeepLast(suggs, i, seen) ==
    IF i > Len(suggs) THEN <<>>
    ELSE IF \E j \in (i + 1)..Len(suggs) : Key(suggs[j]) = Key(suggs[i])
    THEN DedupeKeepLast(suggs, i + 1, seen)
    ELSE <<suggs[i]>> \o DedupeKeepLast(suggs, i + 1, seen)

\* the loop of dedupe_suggestions from position i on
RECURSIVE DedupeFrom(_, _, _)
DedupeFrom(suggs, i, seen) ==
    IF i > Len(suggs) THEN <<>>
    ELSE IF Key(suggs[i]) \in seen THEN DedupeFrom(suggs, i + 1, seen)
    ELSE <<suggs[i]>> \o DedupeFrom(suggs, i + 1, seen \cup {Key(suggs[i])})

dedupe_suggestions(suggs) == DedupeFrom(suggs, 1, {})

\* the replacement apply_mstp_rules_to_nodes proposes for one matched text
AfterOf(rule, before) ==
    IF rule.id = "avoid-passive" THEN suggest_active_voice(before)
    ELSE Sub(rule, before)

\* the matched text in the normalized form the pattern was written in
BeforeLower(original, m) == Lower(SubSeq(original, m.start, m.stop - 1))

\* the matched text of span m of the fragment text
BeforeOf(original, m) == SubSeq(original, m.start, m.stop - 1)

\* the suggestions of one rule on one fragment: one per match, in the order
\* of finditer, without those that change nothing
RECURSIVE RuleSuggestions(_, _, _, _, _)
RuleSuggestions(rule, path, original, ms, j) ==
    IF j > Len(ms) THEN <<>>
    ELSE LET before == BeforeOf(original, ms[j])
             after == AfterOf(rule, before)
         IN  (IF before = after THEN <<>>
              ELSE <<Suggestion("MSTP", rule.id, rule.desc, path, before, after)>>)
             \o RuleSuggestions(rule, path, original, ms, j + 1)

\* the suggestions of rules k.. on one fragment
RECURSIVE NodeSuggestions(_, _, _)
NodeSuggestions(path, original, k) ==
    IF k > Len(MSTP_RULES) THEN <<>>
    ELSE RuleSuggestions(MSTP_RULES[k], path, original,
                         FindIter(MSTP_RULES[k], original), 1)
         \o NodeSuggestions(path, original, k + 1)

\* the suggestions of the fragments r.. before they are deduplicated
RECURSIVE MstpRaw(_, _, _)
MstpRaw(t, refs, r) ==
    IF r > Len(refs) THEN <<>>
    ELSE NodeSuggestions(refs[r].path, t[refs[r].node].text, 1)
         \o MstpRaw(t, refs, r + 1)

apply_mstp_rules_to_nodes(t, refs) == dedupe_suggestions(MstpRaw(t, refs, 1))

(***************************************************************************)
(* The Grammar Advisor (LanguageTool).  A reply of the advisor is a        *)
(* sequence of matches [offset, errorLength, replacements, ruleId,         *)
(* message]; offsets count from 0.                                         *)
(***************************************************************************)
Min(a, b) == IF a <= b THEN a ELSE b

\* the Python slice s[a:b] for 0 <= a
Slice(s, a, b) == IF a >= Len(s) THEN "" ELSE SubSeq(s, a + 1, Min(b, Len(s)))

\* the suggestions apply_langtool_to_nodes takes from the matches j.. of one
\* fragment
RECURSIVE GrammarSuggestions(_, _, _, _)
GrammarSuggestions(path, text, matches, j) ==
    IF j > Len(matches) THEN <<>>
    ELSE LET m == matches[j]
             before == Slice(text, m.offset, m.offset + m.errorLength)
         IN  (IF m.replacements = <<>> THEN <<>>
              ELSE IF Strip(before) = Strip(m.replacements[1]) \/ Strip(before) = ""
              THEN <<>>
              ELSE <<Suggestion("Grammar", m.ruleId, m.message, path, before,
                                m.replacements[1])>>)
             \o GrammarSuggestions(path, text, matches, j + 1)

(***************************************************************************)
(* The suggestion table (the pandas DataFrame of process_html and of the   *)
(* review): its rows, and whether it has a column "apply".                 *)
(***************************************************************************)
SetApply(rows, value) == [i \in 1..Len(rows) |-> [rows[i] EXCEPT !.apply = value]]

\* pd.DataFrame(all_suggestions), then df["apply"] = True unless df.empty
DataFrame(all) ==
    IF all = <<>> THEN [hasApply |-> FALSE, rows |-> <<>>]
    ELSE [hasApply |-> TRUE, rows |-> SetApply(all, TRUE)]

\* the rows r.. of the table that are accepted: df[df["apply"] == True]
RECURSIVE Accepted(_, _)
Accepted(rows, r) ==
    IF r > Len(rows) THEN <<>>
    ELSE (IF rows[r].apply = TRUE THEN <<rows[r]>> ELSE <<>>) \o Accepted(rows, r + 1)

(***************************************************************************)
(* apply_selected_changes.                                                 *)
(***************************************************************************)
\* by_path[path]: the (before, after) pairs of the changes c.. with this path
RECURSIVE PairsOf(_, _, _)
PairsOf(changes, path, c) ==
    IF c > Len(changes) THEN <<>>
    ELSE (IF changes[c].path = path
            THEN <<[before |-> changes[c].before, after |-> changes[c].after]>>
            ELSE <<>>)
         \o PairsOf(changes, path, c + 1)

\* str.replace(before, after, 1)
ReplaceFirst(s, before, after) ==
    LET i == Find(before, s)
    IN  IF i = 0 THEN s
        ELSE SubSeq(s, 1, i - 1) \o after \o SubSeq(s, i + Len(before), Len(s))

\* the text after the pairs k.. were applied to it, one after the other
RECURSIVE ApplyPairs(_, _, _)
ApplyPairs(text, pairs, k) ==
    IF k > Len(pairs) THEN text
    ELSE ApplyPairs(ReplaceFirst(text, pairs[k].before, pairs[k].after), pairs, k + 1)

\* the text the loop over the tree leaves in text node n
NewText(node, changes) ==
    ApplyPairs(node.text, PairsOf(changes, _node_path(node), 1), 1)

\* the tree after the loop: a node is replaced when its text changed
ApplyToTree(t, changes) ==
    [n \in 1..Len(t) |-> [t[n] EXCEPT !.text = NewText(t[n], changes)]]

\* the count with applied += 1 for every node whose path has changes
AppliedCountVisited(t, changes) ==
    Cardinality({n \in 1..Len(t) : PairsOf(changes, _node_path(t[n]), 1) # <<>>})

\* the number of replace_with calls of the loop
AppliedCount(t, changes) ==
    Cardinality({n \in 1..Len(t) : NewText(t[n], changes) # t[n].text})

(***************************************************************************)
(* str(soup): the markup of the tree.                                      *)
(***************************************************************************)
EscapeCh(c) ==
    CASE c = "&" -> "&amp;"
      [] c = "<" -> "&lt;"
      [] c = ">" -> "&gt;"
      [] OTHER -> c

\* the text with every character escaped (halved, to keep the recursion flat)
RECURSIVE Escape(_)
Escape(s) ==
    IF s = "" THEN ""
    ELSE IF Len(s) = 1 THEN EscapeCh(s)
    ELSE Escape(SubSeq(s, 1, Len(s) \div 2)) \o Escape(SubSeq(s, Len(s) \div 2 + 1, Len(s)))

RECURSIVE JoinSpace(_)
JoinSpace(cs) ==
    IF Len(cs) = 0 THEN ""
    ELSE IF Len(cs) = 1 THEN cs[1]
    ELSE cs[1] \o " " \o JoinSpace(Tail(cs))

OpenTag(e) ==
    "<" \o e.name \o (IF e.id # "" THEN " id=\"" \o e.id \o "\"" ELSE "")
        \o (IF e.class # <<>> THEN " class=\"" \o JoinSpace(e.class) \o "\"" ELSE "")
        \o ">"

CloseTag(e) == "</" \o e.name \o ">"

\* the elements of a chain of ancestors, outermost first, without the document
RECURSIVE Outermost(_)
Outermost(anc) ==
    IF Len(anc) <= 1 THEN <<>> ELSE Outermost(Tail(anc)) \o <<anc[1]>>

\* the number of leading elements two chains (outermost first) share
RECURSIVE Shared(_, _, _)
Shared(a, b, k) ==
    IF k < Len(a) /\ k < Len(b) /\ a[k + 1].eid = b[k + 1].eid
    THEN Shared(a, b, k + 1) ELSE k

\* the closing tags of the elements k+1.. of an open chain, innermost first
RECURSIVE CloseDown(_, _)
CloseDown(open, k) ==
    IF Len(open) <= k THEN "" ELSE CloseTag(open[Len(open)]) \o CloseDown(SubSeq(open, 1, Len(open) - 1), k)

\* the opening tags of the elements k+1.. of a chain, outermost first
RECURSIVE OpenUp(_, _)
OpenUp(chain, k) ==
    IF k >= Len(chain) THEN "" ELSE OpenTag(chain[k + 1]) \o OpenUp(chain, k + 1)

TextMarkup(node) ==
    IF Len(node.anc) > 0 /\ node.anc[1].name \in blacklist THEN node.text
    ELSE Escape(node.text)

RECURSIVE SerializeFrom(_, _, _)
SerializeFrom(t, n, open) ==
    IF n > Len(t) THEN CloseDown(open, 0)
    ELSE LET chain == Outermost(t[n].anc)
             k == Shared(open, chain, 0)
         IN  CloseDown(open, k) \o OpenUp(chain, k) \o TextMarkup(t[n])
                 \o SerializeFrom(t, n + 1, chain)

Serialize(t) == SerializeFrom(t, 1, <<>>)

(***************************************************************************)
(* The documents of the model.                                             *)
(***************************************************************************)
MaxNodes == 2
MaxTokens == 3
MaxOffset == 1
MaxErrLen == 2

\* the places a text node can be in: two sibling paragraphs, a paragraph
\* with id and class, a paragraph whose id holds a dot, a script
inP1 == <<Elem(1, "p", "", <<>>), DOCUMENT>>
inP2 == <<Elem(2, "p", "", <<>>), DOCUMENT>>
inPxy == <<Elem(3, "p", "x", <<"y">>), DOCUMENT>>
inPxdy == <<Elem(4, "p", "x.y", <<>>), DOCUMENT>>
inScript == <<Elem(5, "script", "", <<>>), DOCUMENT>>
inB == <<Elem(6, "b", "", <<>>), Elem(1, "p", "", <<>>), DOCUMENT>>

Chains == {inP1, inP2, inScript}

Vocab == {"ok", "t", "&", " ", "ay"}

\* the texts of exactly k words of the vocabulary
RECURSIVE TextsOf(_)
TextsOf(k) == IF k = 0 THEN {""} ELSE {w \o s : w \in Vocab, s \in TextsOf(k - 1)}

\* an element that was closed does not open again: a further text node of
\* these documents lies in an element none of the nodes before it lies in
Fresh(d, c) == \A n \in 1..Len(d) : d[n].anc # c

\* the documents of n text nodes with k words in all, each node with a word
\* at least
RECURSIVE DocsOf(_, _)
DocsOf(n, k) ==
    IF n = 0 THEN (IF k = 0 THEN {<<>>} ELSE {})
    ELSE UNION {{Append(p[1], Node(p[2], p[3])) :
                    p \in {q \in DocsOf(n - 1, k - j) \X Chains \X TextsOf(j) :
                             Fresh(q[1], q[2])}}
                : j \in 1..k}

GeneratedDocs == UNION {DocsOf(n, k) : n \in 1..MaxNodes, k \in 1..MaxTokens}

LongSentence ==
    "This sentence is long on purpose and it goes on without a break for more "
        \o "than one hundred and twenty characters until it ends here."

\* the scenarios of the specification, the sample text of test_mstp_rules.py
\* line by line, documents whose fragments share a path, and fragments in
\* which the text of a match occurs a second time
ScenarioDocs == {
    <<Node(inP1, "tok ok")>>,
    <<Node(inP1, "offices office")>>,
    <<Node(inP1, "is &ed, is anded")>>,
    <<Node(inP1, "Click on the button to send an e-mail.")>>,
    <<Node(inP1, "Save & Exit.")>>,
    <<Node(inP1, "Please setup the device and choose the option which you want.")>>,
    <<Node(inP1, "Use Chrome, Firefox, etc.")>>,
    <<Node(inP1, "The file which you opened is on the internet.")>>,
    <<Node(inP1, LDQUO \o "Click OK" \o RDQUO \o " to continue.")>>,
    <<Node(inP1, "ok button is displayed in windows office.")>>,
    <<Node(inP1, "Use Chrome, Web and Edge to log in.")>>,
    <<Node(inP1, "Send an e-mail or an E-mail, not an e-mail.")>>,
    <<Node(inP1, LongSentence)>>,
    <<Node(inP1, "Save & Exit"), Node(inB, "ok"), Node(inP1, "&")>>,
    <<Node(inPxy, "Click on Okay."), Node(inPxdy, "doubleclick online")>>,
    <<Node(inP1, "Click on it."), Node(inScript, "click on()")>>
}

\* the documents checked with the Grammar Advisor loaded
AdvisorDocs == {
    <<Node(inP1, "Save & Exit.")>>,
    <<Node(inP1, "Ok"), Node(inP2, "tok")>>,
    <<Node(inP1, "a ok"), Node(inScript, "x()"), Node(inPxy, "an e-mail"),
      Node(inP2, "to")>>
}

\* what the advisor can answer for one fragment: no match, or one match
AdvisorMatches ==
    [offset : 0..MaxOffset, errorLength : 1..MaxErrLen,
     replacements : {<<>>, <<"OK", "a">>},
     ruleId : {"MORFOLOGIK_RULE_EN_US"}, message : {"Possible spelling mistake found."}]

AdvisorReplies == {<<>>} \cup {<<m>> : m \in AdvisorMatches}

(***************************************************************************)
(* The run over one document: process_html (extraction, MSTP rules, the    *)
(* loop of apply_langtool_to_nodes with one call of the advisor per step), *)
(* the review of the table in streamlit_app.py, apply_selected_changes.    *)
(***************************************************************************)
NoTable == [hasApply |-> FALSE, rows |-> <<>>]

Init ==
    /\ \/ lt = "none" /\ tree \in GeneratedDocs \cup ScenarioDocs
       \/ lt = "on" /\ tree \in AdvisorDocs
    /\ orig = tree
    /\ pc = "parsed"
    /\ nodes = <<>>
    /\ mstp = <<>>
    /\ gram = <<>>
    /\ ltIdx = 1
    /\ ltLog = <<>>
    /\ df = NoTable
    /\ html = ""
    /\ applied = 0
    /\ err = ""
    /\ extracted = <<>>
    /\ first = <<>>
    /\ dIn = <<>>
    /\ dOut = <<>>

\* a call of extract_text_nodes(soup) by itself
Extract ==
    /\ pc \in {"parsed", "grammar", "processed", "reviewed", "applied", "failed"}
    /\ extracted' = <<extract_text_nodes(tree)>>
    /\ first' = IF first = <<>> THEN extracted' ELSE first
    /\ UNCHANGED <<tree, orig, pc, lt, nodes, mstp, gram, ltIdx, ltLog, df, html,
                   applied, err, dIn, dOut>>

\* process_html that rewrites the text nodes while it collects the suggestions
ProcessStartEager ==
    /\ pc = "parsed"
    /\ nodes' = extract_text_nodes(tree)
    /\ extracted' = <<nodes'>>
    /\ first' = IF first = <<>> THEN extracted' ELSE first
    /\ mstp' = apply_mstp_rules_to_nodes(tree, nodes')
    /\ tree' = ApplyToTree(tree, mstp')
    /\ gram' = <<>>
    /\ ltIdx' = 1
    /\ ltLog' = <<>>
    /\ pc' = "grammar"
    /\ UNCHANGED <<orig, lt, df, html, applied, err, dIn, dOut>>

\* process_html up to the call of apply_langtool_to_nodes
ProcessStart ==
    /\ pc = "parsed"
    /\ nodes' = extract_text_nodes(tree)
    /\ extracted' = <<nodes'>>
    /\ first' = IF first = <<>> THEN extracted' ELSE first
    /\ mstp' = apply_mstp_rules_to_nodes(tree, nodes')
    /\ gram' = <<>>
    /\ ltIdx' = 1
    /\ ltLog' = <<>>
    /\ pc' = "grammar"
    /\ UNCHANGED <<tree, orig, lt, df, html, applied, err, dIn, dOut>>

\* apply_langtool_to_nodes without LanguageTool returns [], and process_html
\* builds the table of the MSTP suggestions
LtUnavailable ==
    /\ pc = "grammar"
    /\ lt = "none"
    /\ df' = DataFrame(mstp \o <<>>)
    /\ pc' = "processed"
    /\ UNCHANGED <<tree, orig, lt, nodes, mstp, gram, ltIdx, ltLog, html, applied,
                   err, extracted, first, dIn, dOut>>

\* one turn of the loop: the advisor answers for fragment ltIdx
LtCheck ==
    /\ pc = "grammar"
    /\ lt = "on"
    /\ ltIdx <= Len(nodes)
    /\ \E reply \in AdvisorReplies :
        /\ gram' = gram \o GrammarSuggestions(nodes[ltIdx].path,
                                              tree[nodes[ltIdx].node].text, reply, 1)
        /\ ltLog' = Append(ltLog, [ref |-> ltIdx, ok |-> TRUE, matches |-> reply])
    /\ ltIdx' = ltIdx + 1
    /\ UNCHANGED <<tree, orig, pc, lt, nodes, mstp, df, html, applied, err,
                   extracted, first, dIn, dOut>>

\* the loop with "break" for "continue" in the except clause
LtFailBreak ==
    /\ pc = "grammar"
    /\ lt = "on"
    /\ ltIdx <= Len(nodes)
    /\ gram' = gram
    /\ ltLog' = Append(ltLog, [ref |-> ltIdx, ok |-> FALSE, matches |-> <<>>])
    /\ ltIdx' = Len(nodes) + 1
    /\ UNCHANGED <<tree, orig, pc, lt, nodes, mstp, df, html, applied, err,
                   extracted, first, dIn, dOut>>

\* one turn of the loop: the call of the advisor raises for fragment ltIdx
LtFail ==
    /\ pc = "grammar"
    /\ lt = "on"
    /\ ltIdx <= Len(nodes)
    /\ gram' = gram
    /\ ltLog' = Append(ltLog, [ref |-> ltIdx, ok |-> FALSE, matches |-> <<>>])
    /\ ltIdx' = ltIdx + 1
    /\ UNCHANGED <<tree, orig, pc, lt, nodes, mstp, df, html, applied, err,
                   extracted, first, dIn, dOut>>

\* the loop is over: apply_langtool_to_nodes returns the deduplicated list and
\* process_html builds the table
LtReturn ==
    /\ pc = "grammar"
    /\ lt = "on"
    /\ ltIdx > Len(nodes)
    /\ df' = DataFrame(mstp \o dedupe_suggestions(gram))
    /\ pc' = "processed"
    /\ UNCHANGED <<tree, orig, lt, nodes, mstp, gram, ltIdx, ltLog, html, applied,
                   err, extracted, first, dIn, dOut>>

\* streamlit_app.py: every row is accepted, then the user sets the flags
Review ==
    /\ pc = "processed"
    /\ \E mask \in [1..Len(df.rows) -> BOOLEAN] :
        df' = [hasApply |-> TRUE,
               rows |-> [i \in 1..Len(df.rows) |-> [df.rows[i] EXCEPT !.apply = mask[i]]]]
    /\ pc' = "reviewed"
    /\ UNCHANGED <<tree, orig, lt, nodes, mstp, gram, ltIdx, ltLog, html, applied,
                   err, extracted, first, dIn, dOut>>

\* apply_selected_changes(soup, df): df[False] raises KeyError when the table
\* has no column "apply"
Apply ==
    /\ pc \in {"processed", "reviewed"}
    /\ IF df.hasApply
       THEN LET changes == Accepted(df.rows, 1)
            IN  /\ tree' = ApplyToTree(tree, changes)
                /\ applied' = AppliedCount(tree, changes)
                /\ html' = Serialize(tree')
                /\ err' = ""
                /\ pc' = "applied"
       ELSE /\ err' = "KeyError"
            /\ pc' = "failed"
            /\ UNCHANGED <<tree, applied, html>>
    /\ UNCHANGED <<orig, lt, nodes, mstp, gram, ltIdx, ltLog, df, extracted, first,
                   dIn, dOut>>

Next ==
    \/ Extract
    \/ ProcessStart
    \/ LtUnavailable
    \/ LtCheck
    \/ LtFail
    \/ LtReturn
    \/ Review
    \/ Apply

Spec == Init /\ [][Next]_vars

(***************************************************************************)
(* dedupe_suggestions by itself, on every list of at most MaxList          *)
(* suggestions that agree or differ in each field of the key, in the       *)
(* description and in the flag.                                            *)
(***************************************************************************)
MaxList == 3

SomeSuggestion == Suggestion("MSTP", "use-email", "Use 'email' instead of 'e-mail'.",
                             "[document] > p", "e-mail", "email")

DedupeUniverse == {
    SomeSuggestion,
    [SomeSuggestion EXCEPT !.description = "Write email."],
    [SomeSuggestion EXCEPT !.apply = TRUE],
    [SomeSuggestion EXCEPT !.type = "Grammar"],
    [SomeSuggestion EXCEPT !.rule_id = "use-ok"],
    [SomeSuggestion EXCEPT !.path = "[document] > div"],
    [SomeSuggestion EXCEPT !.before = "E-mail"],
    [SomeSuggestion EXCEPT !.after = "e mail"]
}

RECURSIVE ListsOf(_)
ListsOf(n) ==
    IF n = 0 THEN {<<>>}
    ELSE {Append(l, x) : l \in ListsOf(n - 1), x \in DedupeUniverse}

DedupeInputs == UNION {ListsOf(n) : n \in 0..MaxList}

DedupeInit ==
    /\ dIn \in DedupeInputs
    /\ dOut = <<>>
    /\ pc = "dedupe"
    /\ lt = "none"
    /\ tree = <<>>
    /\ orig = <<>>
    /\ nodes = <<>>
    /\ mstp = <<>>
    /\ gram = <<>>
    /\ ltIdx = 1
    /\ ltLog = <<>>
    /\ df = NoTable
    /\ html = ""
    /\ applied = 0
    /\ err = ""
    /\ extracted = <<>>
    /\ first = <<>>

\* dedupe_suggestions(dIn)
DedupeCall ==
    /\ pc = "dedupe"
    /\ Len(dOut) = 0
    /\ dOut' = <<dedupe_suggestions(dIn)>>
    /\ UNCHANGED <<tree, orig, pc, lt, nodes, mstp, gram, ltIdx, ltLog, df, html,
                   applied, err, extracted, first, dIn>>

\* dedupe_suggestions of what the first call returned
DedupeAgain ==
    /\ pc = "dedupe"
    /\ Len(dOut) = 1
    /\ dOut' = Append(dOut, dedupe_suggestions(dOut[1]))
    /\ UNCHANGED <<tree, orig, pc, lt, nodes, mstp, gram, ltIdx, ltLog, df, html,
                   applied, err, extracted, first, dIn>>

DedupeNext == DedupeCall \/ DedupeAgain

DedupeSpec == DedupeInit /\ [][DedupeNext]_vars

(***************************************************************************)
(* The properties.                                                         *)
(***************************************************************************)

\* C7: dedupe_suggestions is idempotent: deduplicating what a first call
\* returned gives the same list, element for element and in the same order.
C7_DedupeIdempotent == Len(dOut) = 2 => dOut[2] = dOut[1]

\* a list with duplicates that are not side by side was deduplicated twice
C7_Witness ==
    /\ Len(dOut) = 2
    /\ Len(dOut[1]) >= 2
    /\ Len(dOut[1]) < Len(dIn)

\* the position of the first suggestion of list l that has key k
FirstWith(l, k) ==
    CHOOSE i \in 1..Len(l) : Key(l[i]) = k /\ \A j \in 1..(i - 1) : Key(l[j]) # k

\* C8: dedupe_suggestions(L) holds exactly one suggestion for each key
\* (type, rule_id, path, before, after) that occurs in L, namely the first of
\* L with that key, and these stand in the order of their first occurrence in
\* L; suggestions that differ in a field of the key are all kept.
C8_FirstOfEachKey ==
    Len(dOut) >= 1 =>
        LET r == dOut[1]
        IN  /\ {Key(r[i]) : i \in 1..Len(r)} = {Key(dIn[i]) : i \in 1..Len(dIn)}
            /\ \A i, j \in 1..Len(r) : i # j => Key(r[i]) # Key(r[j])
            /\ \A i \in 1..Len(r) : r[i] = dIn[FirstWith(dIn, Key(r[i]))]
            /\ \A i, j \in 1..Len(r) :
                  i < j => FirstWith(dIn, Key(r[i])) < FirstWith(dIn, Key(r[j]))

\* a list in which a key occurs twice with different descriptions, around a
\* suggestion of another key, was deduplicated
C8_Witness ==
    /\ Len(dOut) >= 1
    /\ Len(dIn) = 3
    /\ Key(dIn[1]) = Key(dIn[3])
    /\ dIn[1] # dIn[3]
    /\ Key(dIn[2]) # Key(dIn[1])
    /\ Len(dOut[1]) = 2

AllAccepted == \A i \in 1..Len(df.rows) : df.rows[i].apply

Pairs(suggs) == [i \in 1..Len(suggs) |-> <<suggs[i].before, suggs[i].after>>]

C1_Doc == <<Node(inP1, "Click on the button to send an e-mail.")>>

\* C1: the fragment "Click on the button to send an e-mail." yields the two
\* suggestions "Click on" -> "Click" and "e-mail" -> "email", and with both
\* accepted apply_selected_changes leaves "Click the button to send an email."
C1_ClickOnScenario ==
    orig = C1_Doc =>
        /\ pc # "parsed" =>
              Pairs(mstp) = << <<"Click on", "Click">>, <<"e-mail", "email">> >>
        /\ (pc = "applied" /\ AllAccepted) =>
              tree[1].text = "Click the button to send an email."

\* what the code does in the scenario of C1: the replacement is the literal
\* repl of the rule, in lower case
C1_Observed ==
    orig = C1_Doc =>
        /\ pc # "parsed" =>
              Pairs(mstp) = << <<"Click on", "click">>, <<"e-mail", "email">> >>
        /\ (pc = "applied" /\ AllAccepted) =>
              tree[1].text = "click the button to send an email."

\* the fragment of process_html that is text node n of the tree, 0 when the
\* node was not extracted
RefOf(n) ==
    IF \E r \in 1..Len(nodes) : nodes[r].node = n
    THEN CHOOSE r \in 1..Len(nodes) : nodes[r].node = n
    ELSE 0

KeysOf(suggs) == {Key(suggs[i]) : i \in 1..Len(suggs)}

\* the keys of the suggestions that were generated from text node n
GeneratedKeys(n) ==
    IF RefOf(n) = 0 THEN {}
    ELSE KeysOf(NodeSuggestions(nodes[RefOf(n)].path, orig[n].text, 1))
         \cup (IF RefOf(n) <= Len(ltLog) /\ ltLog[RefOf(n)].ok
               THEN KeysOf(GrammarSuggestions(nodes[RefOf(n)].path, orig[n].text,
                                              ltLog[RefOf(n)].matches, 1))
               ELSE {})

\* C2: apply_selected_changes rewrites only fragments that an accepted
\* suggestion was generated from: a text node from which no accepted
\* suggestion was generated has the same text after the call as before it,
\* also when another fragment shares its path.
C2_OnlyAcceptedFragments ==
    pc = "applied" =>
        \A n \in 1..Len(tree) :
            (\A i \in 1..Len(df.rows) :
                df.rows[i].apply => Key(df.rows[i]) \notin GeneratedKeys(n))
            => tree[n].text = orig[n].text

\* the matches of all rules in a text that lead to a suggestion
ChangingMatches(text) ==
    UNION {{[rule |-> k, start |-> m.start, stop |-> m.stop,
             after |-> AfterOf(MSTP_RULES[k], BeforeOf(text, m))] :
                m \in {FindIter(MSTP_RULES[k], text)[j] :
                         j \in 1..Len(FindIter(MSTP_RULES[k], text))}}
           : k \in 1..Len(MSTP_RULES)}

RealChanges(text) ==
    {m \in ChangingMatches(text) : BeforeOf(text, m) # m.after}

Disjoint(M) ==
    \A a, b \in M : a # b => (a.stop <= b.start \/ b.stop <= a.start)

\* the first occurrence of every matched text is a match of its rule
FirstIsMatch(text, M) ==
    \A a \in M : \E b \in M :
        b.rule = a.rule /\ b.start = Find(BeforeOf(text, a), text)

\* the text with every span of M replaced by its replacement
RECURSIVE Rebuild(_, _, _)
Rebuild(text, i, M) ==
    LET starts == {m.start : m \in {x \in M : x.start >= i}}
    IN  IF starts = {} THEN SubSeq(text, i, Len(text))
        ELSE LET m == CHOOSE x \in M : x.start = SetMin(starts)
             IN  SubSeq(text, i, m.start - 1) \o m.after \o Rebuild(text, m.stop, M)

UniquePath(n) ==
    \A m \in 1..Len(orig) : m # n => _node_path(orig[m]) # _node_path(orig[n])

\* C3: after all suggestions of apply_mstp_rules_to_nodes were accepted and
\* apply_selected_changes ran once, every match of a rule in a fragment has
\* been replaced exactly once, also when the same matched text occurs twice
\* or more in the fragment (stated for fragments that share their path with
\* no other and whose matches do not overlap).
C3_EveryMatchOnce ==
    (pc = "applied" /\ lt = "none" /\ AllAccepted) =>
        \A n \in 1..Len(tree) :
            LET M == RealChanges(orig[n].text)
            IN  (/\ Extractable(orig[n])
                 /\ UniquePath(n)
                 /\ Disjoint(M)
                 /\ FirstIsMatch(orig[n].text, M))
                => tree[n].text = Rebuild(orig[n].text, 1, M)

\* C4: when no suggestion of the table is accepted (also when the table is
\* empty), apply_selected_changes leaves every text node as it was, returns
\* the markup the document had before the call, and returns the count 0.
C4_NothingAcceptedNoOp ==
    (pc \in {"applied", "failed"} /\ Accepted(df.rows, 1) = <<>>) =>
        /\ err = ""
        /\ tree = orig
        /\ html = Serialize(orig)
        /\ applied = 0

\* the part of C4 that holds: a table that has its column "apply"
C4_Observed ==
    (pc = "applied" /\ Accepted(df.rows, 1) = <<>>) =>
        /\ err = ""
        /\ tree = orig
        /\ html = Serialize(orig)
        /\ applied = 0

\* the pairs of the accepted rows that apply_selected_changes has for node n
PairsAt(n) == PairsOf(Accepted(df.rows, 1), _node_path(orig[n]), 1)

\* the live text of node n when the turn of pair k + 1 comes
LiveText(n, k) == ApplyPairs(orig[n].text, SubSeq(PairsAt(n), 1, k), 1)

C5_NeverPresent ==
    /\ pc = "applied"
    /\ applied >= 1
    /\ \E n \in 1..Len(tree) :
          /\ PairsAt(n) # <<>>
          /\ \A k \in 1..Len(PairsAt(n)) : ~Contains(orig[n].text, PairsAt(n)[k].before)
          /\ tree[n].text = orig[n].text

\* what the fragments 1..k of the advisor's log contributed: nothing for a
\* fragment the call failed for
RECURSIVE Collected(_)
Collected(k) ==
    IF k = 0 THEN <<>>
    ELSE Collected(k - 1)
         \o (IF ltLog[k].ok
             THEN GrammarSuggestions(nodes[k].path, orig[nodes[k].node].text,
                                     ltLog[k].matches, 1)
             ELSE <<>>)

\* C6: a failure of the advisor for one fragment does not stop the pass: the
\* fragments are checked one after the other in order, whether or not a call
\* failed; what was collected for the fragments before is kept, the fragment
\* of the failed call adds nothing, every fragment has been checked when the
\* table is built, and the MSTP suggestions of process_html are what they are
\* without the advisor.
C6_AdvisorFailureIsLocal ==
    (lt = "on" /\ pc \in {"grammar", "processed"}) =>
        /\ Len(ltLog) = ltIdx - 1
        /\ \A i \in 1..Len(ltLog) : ltLog[i].ref = i
        /\ gram = Collected(Len(ltLog))
        /\ pc = "processed" =>
              /\ Len(ltLog) = Len(nodes)
              /\ mstp = apply_mstp_rules_to_nodes(orig, nodes)
              /\ SetApply(df.rows, FALSE) = mstp \o dedupe_suggestions(gram)

\* the call failed for the second of three fragments; the first and the third
\* gave grammar suggestions, and there are MSTP suggestions
C6_Witness ==
    /\ lt = "on"
    /\ pc = "processed"
    /\ Len(ltLog) = 3
    /\ ltLog[1].ok /\ ~ltLog[2].ok /\ ltLog[3].ok
    /\ Collected(1) # <<>>
    /\ Collected(3) # Collected(1)
    /\ mstp # <<>>
    /\ Len(df.rows) = Len(mstp) + 2

\* C9: the before of every suggestion of apply_mstp_rules_to_nodes and of
\* apply_langtool_to_nodes is a contiguous piece, in the casing of the source,
\* of the text that a fragment with the suggestion's path had when it was
\* extracted; none comes from text a replacement produced.
C9_BeforeIsSourceText ==
    \A s \in {mstp[i] : i \in 1..Len(mstp)} \cup {gram[i] : i \in 1..Len(gram)}
             \cup {df.rows[i] : i \in 1..Len(df.rows)} :
        \E r \in 1..Len(nodes) :
            /\ nodes[r].path = s.path
            /\ Contains(orig[nodes[r].node].text, s.before)

\* a rule that ignores case matched text that is not in lower case, and the
\* advisor gave a suggestion
C9_Witness ==
    /\ lt = "on"
    /\ pc = "processed"
    /\ \E i \in 1..Len(df.rows) :
          df.rows[i].type = "MSTP" /\ df.rows[i].before # Lower(df.rows[i].before)
    /\ \E i \in 1..Len(df.rows) : df.rows[i].type = "Grammar"

\* C10: extraction and the generation of suggestions leave the tree alone:
\* no step but apply_selected_changes changes the tree, and as long as
\* apply_selected_changes has not run, every call of extract_text_nodes
\* returns what the first call returned.
C10_ExtractionReadOnly ==
    [][/\ pc' # "applied" => tree' = tree
       /\ (pc' # "applied" /\ extracted' # <<>>) => extracted' = first']_vars

\* extract_text_nodes was called again after the suggestions were generated,
\* on a document of which it keeps some text nodes and leaves out others
C10_Witness ==
    /\ pc = "reviewed"
    /\ mstp # <<>>
    /\ extracted # <<>>
    /\ extracted = first
    /\ Len(extracted[1]) >= 1
    /\ Len(extracted[1]) < Len(tree)

\* the accepted rows that apply_selected_changes has for node n, in the
\* order of PairsAt(n)
RECURSIVE RowsOf(_, _, _)
RowsOf(changes, path, c) ==
    IF c > Len(changes) THEN <<>>
    ELSE (IF changes[c].path = path THEN <<changes[c]>> ELSE <<>>)
         \o RowsOf(changes, path, c + 1)

RowsAt(n) == RowsOf(Accepted(df.rows, 1), _node_path(orig[n]), 1)

\* where the characters of a live text come from: the position in the
\* original text, 0 for a character that a replacement put there
Zeros(k) == [j \in 1..k |-> 0]

OriginStep(live, og, pair) ==
    LET i == Find(pair.before, live)
    IN  IF i = 0 THEN og
        ELSE SubSeq(og, 1, i - 1) \o Zeros(Len(pair.after))
             \o SubSeq(og, i + Len(pair.before), Len(og))

RECURSIVE OriginFrom(_, _, _, _)
OriginFrom(live, og, pairs, k) ==
    IF k > Len(pairs) THEN og
    ELSE OriginFrom(ReplaceFirst(live, pairs[k].before, pairs[k].after),
                    OriginStep(live, og, pairs[k]), pairs, k + 1)

\* the origins of the live text of node n when the turn of pair k + 1 comes
Origin(n, k) ==
    OriginFrom(orig[n].text, [j \in 1..Len(orig[n].text) |-> j],
               SubSeq(PairsAt(n), 1, k), 1)

\* the spans of the original text of node n that the rule of a row matched
\* with the text of the row
MatchedSpans(n, row) ==
    UNION {{m \in {FindIter(MSTP_RULES[r], orig[n].text)[j] :
                     j \in 1..Len(FindIter(MSTP_RULES[r], orig[n].text))} :
               BeforeOf(orig[n].text, m) = row.before}
           : r \in {x \in 1..Len(MSTP_RULES) : MSTP_RULES[x].id = row.rule_id}}

\* the replacement of pair k in node n lands on a span its rule matched, with
\* every character of the span still the character of the original text
LandsOnMatch(n, k) ==
    LET row == RowsAt(n)[k]
        q == Find(row.before, LiveText(n, k - 1))
        og == Origin(n, k - 1)
    IN  \E m \in MatchedSpans(n, row) :
            \A j \in 0..(Len(row.before) - 1) : og[q + j] = m.start + j

\* C11: within one fragment, each accepted pair of an MSTP rule that
\* apply_selected_changes applies replaces a span its rule matched when the
\* suggestion was generated: never another, earlier occurrence of the same
\* text that the pattern did not match, and never text that the after of an
\* earlier pair of the group put there (stated for fragments that share their
\* path with no other).
C11_ReplacesTheMatchedSpan ==
    pc = "applied" =>
        \A n \in 1..Len(tree) :
            (Extractable(orig[n]) /\ UniquePath(n)) =>
                \A k \in 1..Len(RowsAt(n)) :
                    (/\ RowsAt(n)[k].type = "MSTP"
                     /\ Contains(LiveText(n, k - 1), RowsAt(n)[k].before))
                    => LandsOnMatch(n, k)

\* the first half of C11 alone: the replacement never lands on text of the
\* original that the rule did not match
C11_NotOnUnmatchedOccurrence ==
    pc = "applied" =>
        \A n \in 1..Len(tree) :
            (Extractable(orig[n]) /\ UniquePath(n)) =>
                \A k \in 1..Len(RowsAt(n)) :
                    (/\ RowsAt(n)[k].type = "MSTP"
                     /\ Contains(LiveText(n, k - 1), RowsAt(n)[k].before)
                     /\ \A j \in 0..(Len(RowsAt(n)[k].before) - 1) :
                           Origin(n, k - 1)[Find(RowsAt(n)[k].before,
                                                 LiveText(n, k - 1)) + j] # 0)
                    => LandsOnMatch(n, k)

\* the second half of C11 alone: the replacement never lands on text that an
\* earlier pair of the group put there
C11_NotOnIntroducedText ==
    pc = "applied" =>
        \A n \in 1..Len(tree) :
            (Extractable(orig[n]) /\ UniquePath(n)) =>
                \A k \in 1..Len(RowsAt(n)) :
                    (/\ RowsAt(n)[k].type = "MSTP"
                     /\ Contains(LiveText(n, k - 1), RowsAt(n)[k].before))
                    => \A j \in 0..(Len(RowsAt(n)[k].before) - 1) :
                           Origin(n, k - 1)[Find(RowsAt(n)[k].before,
                                                 LiveText(n, k - 1)) + j] # 0

====
